---- MODULE Spec2Model ----
(***************************************************************************)
(* A model of rtfcompile.py: the text surgery that assembles converted     *)
(* fragments into an RTF template and extracts them again.                 *)
(*                                                                         *)
(* Text is a sequence of one-character strings.  Offsets are 0-based and   *)
(* -1 means "not found", as in Python, so that the index arithmetic of the *)
(* source (slices with negative bounds included) is kept as written.       *)
(***************************************************************************)
EXTENDS Integers, Sequences, FiniteSets, TLC

VARIABLES
    pc,                 \* position of the operation being run
    raised,             \* the exception that ended the operation, or "none"
    warnings,           \* number of warnings printed
    \* fix_footnotes
    segs,               \* the pieces the converter output was built from
    footnote_size,      \* config footnote_size (points)
    rtf_content,        \* the text being rewritten
    start_match_search, \* resume offset of the marker search
    iterations,         \* loop iterations of fix_footnotes so far
    \* fragment marker codec
    file_name,          \* fragment name
    content,            \* fragment content / document read by the extractor
    matches,            \* result of extract_rtf_content
    \* concat / split / compile
    sorted_files,       \* fragment names, in order
    file_texts,         \* fragment contents, in order
    tex_content,        \* output of concat_tex_files / of the converter
    rtf_contents,       \* buckets returned by split_rtf_content
    template_file,      \* the template as read from config["official_template"]
    official_template,  \* the template being filled
    string,             \* config["string"], the slot's search string
    i,                  \* index of the compile loop / of the extraction loop
    \* extraction
    csl_path,           \* the csl_path argument convert() receives
    disk                \* names of the files in output_dir

vars == << pc, raised, warnings, segs, footnote_size, rtf_content,
           start_match_search, iterations, file_name, content, matches,
           sorted_files, file_texts, tex_content, rtf_contents,
           template_file, official_template, string, i, csl_path, disk >>

footVars == << segs, footnote_size, start_match_search, iterations >>
codecVars == << file_name, content, matches >>
filesVars == << sorted_files, file_texts, tex_content, rtf_contents >>
templateVars == << template_file, official_template, string >>

-----------------------------------------------------------------------------
(* Bounds of the model *)

\* pieces of a converter output handed to fix_footnotes
MaxSegs == 2

\* iterations of the fix_footnotes loop that are followed
MaxIter == 3

\* characters of a fragment name and of a fragment content (codec)
MaxNameLen == 2

MaxContentLen == 2

\* fragments in input_dir
MaxFiles == 2

\* pieces of a template
MaxPieces == 2

\* sentinel pairs of a compiled document
MaxPairs == 2

-----------------------------------------------------------------------------
(* Python str primitives *)

Min(S) == CHOOSE x \in S : \A y \in S : x <= y

Max(S) == CHOOSE x \in S : \A y \in S : x >= y

\* A slice bound as Python normalises it: negative counts from the end,
\* then clamped to 0..n.
Norm(k, n) ==
    IF k < 0 THEN (IF n + k < 0 THEN 0 ELSE n + k)
    ELSE IF k > n THEN n ELSE k

\* s[a:b]
Slice(s, a, b) ==
    LET lo == Norm(a, Len(s))
        hi == Norm(b, Len(s))
    IN  IF lo >= hi THEN << >> ELSE SubSeq(s, lo + 1, hi)

\* s[:b]
Upto(s, b) == Slice(s, 0, b)

\* s[a:]
From(s, a) == Slice(s, a, Len(s))

\* sub occurs in s at offset p
MatchAt(s, sub, p) ==
    /\ p >= 0
    /\ p + Len(sub) <= Len(s)
    /\ \A k \in 1..Len(sub) : s[p + k] = sub[k]

\* s.find(sub, start, end), sub non-empty
Find(s, sub, start, end) ==
    LET lo == Norm(start, Len(s))
        hi == Norm(end, Len(s))
        hits == {p \in lo..(hi - Len(sub)) : MatchAt(s, sub, p)}
    IN  IF hits = {} THEN -1 ELSE Min(hits)

\* s.rfind(sub, start, end), sub non-empty
RFind(s, sub, start, end) ==
    LET lo == Norm(start, Len(s))
        hi == Norm(end, Len(s))
        hits == {p \in lo..(hi - Len(sub)) : MatchAt(s, sub, p)}
    IN  IF hits = {} THEN -1 ELSE Max(hits)

\* sub in s
Contains(s, sub) == Find(s, sub, 0, Len(s)) # -1

\* str.isspace() of one character
IsSpace(c) == c \in {" ", "\n", "\t", "\r"}

\* s.strip()
Strip(s) ==
    LET keep == {p \in 1..Len(s) : ~IsSpace(s[p])}
    IN  IF keep = {} THEN << >> ELSE SubSeq(s, Min(keep), Max(keep))

DigitChars == << "0", "1", "2", "3", "4", "5", "6", "7", "8", "9" >>

\* str(n) of a natural number, as an f-string formats it
RECURSIVE IntToStr(_)
IntToStr(n) ==
    IF n < 10 THEN << DigitChars[n + 1] >>
    ELSE IntToStr(n \div 10) \o << DigitChars[(n % 10) + 1] >>

\* the concatenation of a sequence of texts
RECURSIVE Flatten(_)
Flatten(ss) == IF ss = << >> THEN << >> ELSE Head(ss) \o Flatten(Tail(ss))

\* sequences over S of length at most n
SeqUpTo(S, n) == UNION {[1..m -> S] : m \in 0..n}

\* number of (possibly overlapping) occurrences of sub in s
CountOcc(s, sub) == Cardinality({p \in 0..(Len(s) - Len(sub)) : MatchAt(s, sub, p)})

-----------------------------------------------------------------------------
(* fix_footnotes *)

FOOTNOTE_PATTERN == << "\\", "f", "o", "o", "t", "n", "o", "t", "e" >>
CHFTN == << "\\", "c", "h", "f", "t", "n" >>
PARD == << "\\", "p", "a", "r", "d" >>
PAR == << "\\", "p", "a", "r" >>

\* a size directive that is not doubled to half points
FsPointSize(size) == size

\* line 109: footnote_size = int(footnote_size * 2)
FsDoubledSize(size) == size * 2

\* f"\\fs{footnote_size}"

FsDirective(size) == << "\\", "f", "s" >> \o IntToStr(FsDoubledSize(size))

\* the for loop of lines 135-143: the offset i it ends with.  After the
\* character at offset j the counters are open_braces + (number of "{" in
\* k..j) and close_braces + (number of "}" in k..j); the loop breaks at the
\* first j where they agree and otherwise runs to the last offset.  The range
\* k..len-1 is never empty: end <= len before the second insertion.
ScanClose(s, k, open_braces, close_braces) ==
    LET opens == {p \in k..(Len(s) - 1) : s[p + 1] = "{"}
        closes == {p \in k..(Len(s) - 1) : s[p + 1] = "}"}
        stops == {j \in closes :
                    open_braces + Cardinality({p \in opens : p <= j})
                        = close_braces + Cardinality({p \in closes : p <= j})}
    IN  IF stops = {} THEN Len(s) - 1 ELSE Min(stops)

\* the first `\par` of the range instead of the last
ParToRemoveFirst(s, start, k) == Find(s, PAR, start, k)

\* the offset of the `\par` that line 146 picks for removal
ParToRemove(s, start, k) == RFind(s, PAR, start, k)

\* the resume offset of line 148
ResumeOffset(k) == k - 4

\* One iteration of the while loop, as a record of its results.
FootnoteIteration(rtf, from, size) ==
    LET fs == FsDirective(size)
        start1 == Find(rtf, FOOTNOTE_PATTERN, from, Len(rtf))
        end1 == Find(rtf, CHFTN, start1, Len(rtf))
        c1 == Upto(rtf, end1) \o fs \o From(rtf, end1)
        start2 == end1
        footnote_start == Find(c1, << "{" >>, start2, Len(c1))
        end2 == Find(c1, PARD, footnote_start + 1, Len(c1)) + 5
        c2 == Upto(c1, end2) \o fs \o From(c1, end2)
        k == ScanClose(c2, end2, 1, 0)
        start3 == ParToRemove(c2, start2, k)
        c3 == Upto(c2, start3) \o From(c2, start3 + 4)
    IN  [text |-> c3, resume |-> ResumeOffset(k), warned |-> (end1 = -1)]

\* Pieces of converter output the initial documents are built from.
WellFormed(mid, pre, inner) ==
    FOOTNOTE_PATTERN \o CHFTN \o mid \o << "{" >> \o pre \o PARD \o inner
        \o PAR \o << "}" >>

MidPard == << "\\", "~", "\\", "p", "a", "r", "d", " " >>
PreGroup == << "{", "y", "}" >>
InnerPlain == << " ", "x" >>
InnerNested == << " ", "a", "{", "b", "\\", "p", "a", "r", "}", "\\", "p", "a", "r", " ", "c" >>

WFKinds ==
    { [k |-> "wf", mid |-> << >>, pre |-> << >>, inner |-> InnerPlain],
      [k |-> "wf", mid |-> << >>, pre |-> << >>, inner |-> << >>],
      [k |-> "wf", mid |-> MidPard, pre |-> PreGroup, inner |-> InnerNested] }

TextKinds ==
    { [k |-> "txt", t |-> << "{", "\\", "s", "u", "p", "e", "r" >> \o CHFTN \o << "}" >>],
      [k |-> "txt", t |-> << "a" >> \o PAR \o << "\n" >>] }

BadKinds ==
    { [k |-> "noanchor", t |-> FOOTNOTE_PATTERN \o << "{" >> \o PARD \o << " ", "x" >> \o PAR \o << "}" >>],
      [k |-> "nobody", t |-> FOOTNOTE_PATTERN \o CHFTN],
      [k |-> "nopar", t |-> FOOTNOTE_PATTERN \o CHFTN \o << "{" >> \o PARD \o << " ", "x", "}" >>],
      [k |-> "stray", t |-> PARD \o << "}" >>] }

SegKinds == WFKinds \cup TextKinds \cup BadKinds

SegText(g) == IF g.k = "wf" THEN WellFormed(g.mid, g.pre, g.inner) ELSE g.t

Document(gs) == Flatten([n \in 1..Len(gs) |-> SegText(gs[n])])

FootnoteSizes == {10, 4}

FootIdle ==
    /\ segs = << >>
    /\ footnote_size = 0
    /\ start_match_search = 0
    /\ iterations = 0

CodecIdle == file_name = << >> /\ content = << >> /\ matches = << >>

FilesIdle ==
    /\ sorted_files = << >>
    /\ file_texts = << >>
    /\ tex_content = << >>
    /\ rtf_contents = << >>

TemplateIdle ==
    /\ template_file = << >>
    /\ official_template = << >>
    /\ string = << >>

InitFoot ==
    /\ pc = "fix_footnotes"
    /\ raised = "none"
    /\ warnings = 0
    /\ segs \in SeqUpTo(SegKinds, MaxSegs)
    /\ footnote_size \in FootnoteSizes
    /\ rtf_content = Document(segs)
    /\ start_match_search = 0
    /\ iterations = 0
    /\ i = 0
    /\ csl_path = "None"
    /\ disk = {}
    /\ CodecIdle /\ FilesIdle /\ TemplateIdle

\* lines 113-148: one pass of the while loop over the next marker
FixFootnote ==
    /\ pc = "fix_footnotes"
    /\ iterations < MaxIter
    /\ Find(rtf_content, FOOTNOTE_PATTERN, start_match_search, Len(rtf_content)) # -1
    /\ LET r == FootnoteIteration(rtf_content, start_match_search, footnote_size)
       IN  /\ rtf_content' = r.text
           /\ start_match_search' = r.resume
           /\ warnings' = IF r.warned THEN warnings + 1 ELSE warnings
    /\ iterations' = iterations + 1
    /\ UNCHANGED << pc, raised, segs, footnote_size, i, csl_path, disk >>
    /\ UNCHANGED << codecVars, filesVars, templateVars >>

\* lines 115-116, 150: no marker left, the text is returned
FixFootnotesReturn ==
    /\ pc = "fix_footnotes"
    /\ Find(rtf_content, FOOTNOTE_PATTERN, start_match_search, Len(rtf_content)) = -1
    /\ pc' = "fixed"
    /\ UNCHANGED << raised, warnings, rtf_content, i, csl_path, disk >>
    /\ UNCHANGED << footVars, codecVars, filesVars, templateVars >>

NextFoot == FixFootnote \/ FixFootnotesReturn

SpecFoot == InitFoot /\ [][NextFoot]_vars

-----------------------------------------------------------------------------
(* Properties of fix_footnotes *)

\* the directive `\fs<2*size>` a normalised footnote carries
ExpectedFs == << "\\", "f", "s" >> \o IntToStr(2 * footnote_size)

\* every piece of the input is a well-formed footnote or footnote-free text
AllWellFormed == \A n \in 1..Len(segs) : segs[n].k \in {"wf", "txt"}

NumWellFormed == Cardinality({n \in 1..Len(segs) : segs[n].k = "wf"})

MarkerOffsets(s) == {p \in 0..Len(s) : MatchAt(s, FOOTNOTE_PATTERN, p)}

\* s without its occurrences of sub, removed left to right
RECURSIVE RemoveAll(_, _)
RemoveAll(s, sub) ==
    LET p == Find(s, sub, 0, Len(s))
    IN  IF p = -1 THEN s
        ELSE Upto(s, p) \o RemoveAll(From(s, p + Len(sub)), sub)

\* a piece with the trailing `\par` of a well-formed body dropped
SegWithoutLastPar(g) ==
    IF g.k = "wf"
    THEN FOOTNOTE_PATTERN \o CHFTN \o g.mid \o << "{" >> \o g.pre \o PARD
            \o g.inner \o << "}" >>
    ELSE g.t

\* a piece as the normaliser should leave it
SegNormalized(g) ==
    IF g.k = "wf"
    THEN FOOTNOTE_PATTERN \o ExpectedFs \o CHFTN \o g.mid \o << "{" >> \o g.pre
            \o PARD \o ExpectedFs \o g.inner \o << "}" >>
    ELSE g.t

OnlyNoAnchorMalformed == \A n \in 1..Len(segs) : segs[n].k \in {"wf", "txt", "noanchor"}

\* C7: when a marker has no `\chftn` after it, a warning is printed, that
\* occurrence gets no size directive and keeps its body, and the well-formed
\* footnotes of the document are normalised.
C7_NoAnchorLeftUntouched ==
    (pc = "fixed" /\ OnlyNoAnchorMalformed /\ warnings > 0) =>
        rtf_content = Flatten([n \in 1..Len(segs) |-> SegNormalized(segs[n])])

\* C10: on every input, malformed ones included, each marker of the input is
\* processed exactly once and the text grows by at most the two directives
\* inserted per marker.
C10_EachMarkerOnceBoundedGrowth ==
    LET markers == CountOcc(Document(segs), FOOTNOTE_PATTERN)
    IN  /\ iterations <= markers
        /\ Len(rtf_content) <= Len(Document(segs)) + 2 * Len(ExpectedFs) * markers

-----------------------------------------------------------------------------
(* Fragment marker codec: prepend_append_rtf and extract_rtf_content *)

FROM_OPEN == << "{", "\\", "c", "o", "m", "m", "e", "n", "t", " ", "t", "e", "x", "2", "r", "t", "f", "/", "f", "r", "o", "m", ":", " " >>
TO_OPEN == << "{", "\\", "c", "o", "m", "m", "e", "n", "t", " ", "t", "e", "x", "2", "r", "t", "f", "/", "t", "o", ":", " " >>

\* a closing sentinel written with the opening marker's text
AppendWithFromMarker(name) == << "\n" >> \o FROM_OPEN \o name \o << "}" >>

\* line 88
PrependText(name) == FROM_OPEN \o name \o << "}", "\n" >>

\* line 89
AppendText(name) == << "\n" >> \o TO_OPEN \o name \o << "}" >>

\* line 90
prepend_append_rtf(rtf, name) == PrependText(name) \o rtf \o AppendText(name)

\* The regular expression of line 97 tried at offset p, under re.DOTALL:
\* group 1 is lazy, so it ends at the first "}" after which some occurrence of
\* `{\comment tex2rtf/to: <group 1>}` follows; group 2 is lazy, so it ends at
\* the first such occurrence.  << >> when the expression does not match at p.
SentinelMatchAt(text, p) ==
    IF ~MatchAt(text, FROM_OPEN, p) THEN << >>
    ELSE
        LET n == Len(text)
            g1 == p + Len(FROM_OPEN)
            Closer(e) == TO_OPEN \o Slice(text, g1, e) \o << "}" >>
            ends == {e \in g1..(n - 1) :
                        /\ text[e + 1] = "}"
                        /\ Find(text, Closer(e), e + 1, n) # -1}
        IN  IF ends = {} THEN << >>
            ELSE
                LET e == Min(ends)
                    t == Find(text, Closer(e), e + 1, n)
                IN  << [name |-> Slice(text, g1, e),
                        body |-> Slice(text, e + 1, t),
                        end |-> t + Len(Closer(e))] >>

\* re.findall: the non-overlapping matches, left to right, from offset pos
RECURSIVE FindAllSentinels(_, _)
FindAllSentinels(text, pos) ==
    LET starts == {p \in pos..Len(text) : SentinelMatchAt(text, p) # << >>}
    IN  IF starts = {} THEN << >>
        ELSE LET m == SentinelMatchAt(text, Min(starts))[1]
             IN  << m >> \o FindAllSentinels(text, m.end)

\* a captured span kept as matched
RawBody(body) == body

\* line 101: match[1].strip()
StrippedBody(body) == Strip(body)

\* lines 96-101
extract_rtf_content(text) ==
    LET ms == FindAllSentinels(text, 0)
    IN  [n \in 1..Len(ms) |-> << ms[n].name, StrippedBody(ms[n].body) >>]

NameChars == {"a", " ", "}"}
ContentChars == {"x", " ", "\n", "}", "{"}

\* contents that carry a sentinel comment of their own
SentinelContents ==
    { TO_OPEN \o << "a", "}" >>,
      << "x" >> \o FROM_OPEN \o << "a", "}", "y" >>,
      prepend_append_rtf(<< "y" >>, << "a" >>) }

InitCodec ==
    /\ pc = "wrap"
    /\ raised = "none"
    /\ warnings = 0
    /\ file_name \in SeqUpTo(NameChars, MaxNameLen)
    /\ file_texts \in {<< c >> : c \in SeqUpTo(ContentChars, MaxContentLen) \cup SentinelContents}
    /\ content = << >>
    /\ matches = << >>
    /\ sorted_files = << >> /\ tex_content = << >> /\ rtf_contents = << >>
    /\ rtf_content = << >>
    /\ i = 0
    /\ csl_path = "None"
    /\ disk = {}
    /\ FootIdle /\ TemplateIdle

\* prepend_append_rtf applied to the fragment
CodecWrap ==
    /\ pc = "wrap"
    /\ content' = prepend_append_rtf(file_texts[1], file_name)
    /\ pc' = "wrapped"
    /\ UNCHANGED << raised, warnings, rtf_content, i, csl_path, disk, file_name, matches >>
    /\ UNCHANGED << footVars, filesVars, templateVars >>

\* extract_rtf_content applied to the wrapped text
CodecExtract ==
    /\ pc = "wrapped"
    /\ matches' = extract_rtf_content(content)
    /\ pc' = "unwrapped"
    /\ UNCHANGED << raised, warnings, rtf_content, i, csl_path, disk, file_name, content >>
    /\ UNCHANGED << footVars, filesVars, templateVars >>

NextCodec == CodecWrap \/ CodecExtract

SpecCodec == InitCodec /\ [][NextCodec]_vars

\* the text holds a sentinel comment opener
HasSentinel(text) == Contains(text, FROM_OPEN) \/ Contains(text, TO_OPEN)

\* C1: for a name without "}" and a content without sentinel comment,
\* extracting from the wrapped content returns exactly one pair: the name and
\* the content stripped of leading and trailing whitespace.
C1_RoundTrip ==
    (/\ pc = "unwrapped"
     /\ ~Contains(file_name, << "}" >>)
     /\ ~HasSentinel(file_texts[1]))
        => matches = << << file_name, Strip(file_texts[1]) >> >>

C1_Witness ==
    /\ pc = "unwrapped"
    /\ file_name = << "a", " " >>
    /\ file_texts[1] = << "\n", "}" >>
    /\ matches = << << file_name, << "}" >> >> >>

-----------------------------------------------------------------------------
(* concat_tex_files and split_rtf_content *)

MARKER_TOKEN == << "R", "T", "F", "2", "C", "O", "M", "P", "I", "L", "E", " ", "-", " ", "M", "A", "R", "K", "E", "R", " ", "L", "I", "N", "E", " ", "-", " " >>

\* the names input_dir can hold, in ascending order of name
AllNames ==
    << << "0", "1", ".", "t", "e", "x" >>,
       << "0", "2", "P", ".", "t", "e", "x" >>,
       << "0", "3", ".", "m", "d" >> >>

\* line 33: sorted(file_paths, key=name), for a set of names
sort_files(names) == SelectSeq(AllNames, LAMBDA x : x \in names)

\* lines 169-175
RECURSIVE concat_tex_files(_, _)
concat_tex_files(names, texts) ==
    IF names = << >> THEN << >>
    ELSE << "\n", "\n" >> \o MARKER_TOKEN \o Head(names) \o << "\n", "\n" >>
            \o Head(texts) \o concat_tex_files(Tail(names), Tail(texts))

\* s.split("\n")
RECURSIVE SplitLines(_)
SplitLines(s) ==
    LET p == Find(s, << "\n" >>, 0, Len(s))
    IN  IF p = -1 THEN << s >>
        ELSE << Upto(s, p) >> \o SplitLines(SubSeq(s, p + 2, Len(s)))

\* "\n".join(lines)
RECURSIVE JoinLines(_)
JoinLines(lines) ==
    IF lines = << >> THEN << >>
    ELSE IF Len(lines) = 1 THEN lines[1]
    ELSE lines[1] \o << "\n" >> \o JoinLines(Tail(lines))

\* lines 188-189 and 193-194: the bucket is kept when it holds any line
Flush(file_contents, current_file) ==
    IF Len(current_file) > 0
    THEN Append(file_contents, JoinLines(current_file))
    ELSE file_contents

\* lines 186-194: the loop over the lines, then the final flush
RECURSIVE SplitLoop(_, _, _)
SplitLoop(lines, file_contents, current_file) ==
    IF lines = << >> THEN Flush(file_contents, current_file)
    ELSE IF Contains(Head(lines), MARKER_TOKEN)
         THEN SplitLoop(Tail(lines), Flush(file_contents, current_file), << >>)
         ELSE SplitLoop(Tail(lines), file_contents, Append(current_file, Head(lines)))

\* lines 183-200 (the returned buckets)
split_rtf_content(text) == SplitLoop(SplitLines(text), << >>, << >>)

\* the sets of names input_dir can hold
InputDirs == {d \in SUBSET {AllNames[n] : n \in 1..Len(AllNames)} : Cardinality(d) <= MaxFiles}

SplitTexts == SeqUpTo({"x", "\n"}, MaxContentLen)

InitSplit ==
    /\ pc = "concat"
    /\ raised = "none"
    /\ warnings = 0
    /\ \E d \in InputDirs : sorted_files = sort_files(d)
    /\ file_texts \in [1..Len(sorted_files) -> SplitTexts]
    /\ tex_content = << >>
    /\ rtf_contents = << >>
    /\ rtf_content = << >>
    /\ i = 0
    /\ csl_path = "None"
    /\ disk = {}
    /\ FootIdle /\ CodecIdle /\ TemplateIdle

\* concat_tex_files over the sorted fragments
ConcatFiles ==
    /\ pc = "concat"
    /\ tex_content' = concat_tex_files(sorted_files, file_texts)
    /\ pc' = "concatenated"
    /\ UNCHANGED << raised, warnings, rtf_content, i, csl_path, disk >>
    /\ UNCHANGED << sorted_files, file_texts, rtf_contents >>
    /\ UNCHANGED << footVars, codecVars, templateVars >>

\* split_rtf_content applied to the concatenation itself
SplitConcatenation ==
    /\ pc = "concatenated"
    /\ rtf_contents' = split_rtf_content(tex_content)
    /\ warnings' = IF Len(rtf_contents') # Len(sorted_files) THEN warnings + 1 ELSE warnings
    /\ pc' = "split"
    /\ UNCHANGED << raised, rtf_content, i, csl_path, disk >>
    /\ UNCHANGED << sorted_files, file_texts, tex_content >>
    /\ UNCHANGED << footVars, codecVars, templateVars >>

NextSplit == ConcatFiles \/ SplitConcatenation

SpecSplit == InitSplit /\ [][NextSplit]_vars

\* C2: split_rtf_content applied to the output of concat_tex_files (of one or
\* more fragments) returns one bucket per fragment, in fragment order, each
\* equal to its fragment's content up to surrounding whitespace, with no extra
\* and no missing bucket.
C2_SplitInvertsConcat ==
    (pc = "split" /\ Len(sorted_files) >= 1) =>
        /\ Len(rtf_contents) = Len(sorted_files)
        /\ \A n \in 1..Len(sorted_files) :
              n <= Len(rtf_contents) => Strip(rtf_contents[n]) = Strip(file_texts[n])

-----------------------------------------------------------------------------
(* convert, find_string and compile *)

None == << >>

\* the last "}" of the text instead of the first one after the occurrence
LastBrace(text, start_index) == RFind(text, << "}" >>, 0, Len(text))

\* line 40
EndBrace(text, start_index) == Find(text, << "}" >>, start_index, Len(text))

\* lines 36-43: << start_brace, end_brace + 1 >>, or None
find_string(text, str) ==
    LET start_index == Find(text, str, 0, Len(text))
    IN  IF start_index # -1
        THEN LET start_brace == RFind(text, << "{" >>, 0, start_index)
                 end_brace == EndBrace(text, start_index)
             IN  IF start_brace # -1 /\ end_brace # -1
                 THEN << start_brace, end_brace + 1 >>
                 ELSE None
        ELSE None

\* lines 54-55: convert raises ValueError when csl_path is None
ConvertRaises(csl) == csl = "None"

\* lines 79-81: what the converter prints for the concatenation of the
\* fragments.  The converter is external: each marker line may or may not
\* survive (those of `kept` do), and text may precede the first marker (`lead`).
\* The fragments hold no `\footnote`, so fix_footnotes (line 83) returns the
\* text as it is.
RECURSIVE ConverterOutput(_, _, _, _)
ConverterOutput(names, texts, kept, n) ==
    IF n > Len(names) THEN << >>
    ELSE (IF n \in kept
          THEN << "{" >> \o PARD \o << " " >> \o MARKER_TOKEN \o names[n] \o PAR \o << "}", "\n" >>
          ELSE << >>)
         \o << "{" >> \o PARD \o << " " >> \o texts[n] \o PAR \o << "}", "\n" >>
         \o ConverterOutput(names, texts, kept, n + 1)

LeadText(lead) == IF lead THEN << "{", "t", "}", "\n" >> ELSE << >>

SLOT == << "P" >>
BRACED_SLOT == << "{", "P", "}" >>

TemplatePieces ==
    { << "{", "P", "}" >>,
      << "{", "P", "{", "a", "}", "}" >>,
      << "{", "P", " ", "P", "}" >>,
      << "P" >>,
      << "a" >> }

CompileTexts == { << "x" >>, << "P" >> }

InitCompile ==
    /\ pc = "concat"
    /\ raised = "none"
    /\ warnings = 0
    /\ \E d \in InputDirs : sorted_files = sort_files(d)
    /\ file_texts \in [1..Len(sorted_files) -> CompileTexts]
    /\ tex_content = << >>
    /\ rtf_contents = << >>
    /\ rtf_content = << >>
    /\ \E ps \in SeqUpTo(TemplatePieces, MaxPieces) : template_file = Flatten(ps)
    /\ official_template = template_file
    /\ string \in {SLOT, BRACED_SLOT}
    /\ i = 0
    /\ csl_path \in {"None", "apa.csl"}
    /\ disk = {}
    /\ FootIdle /\ CodecIdle

\* line 214
CompileConcat ==
    /\ pc = "concat"
    /\ tex_content' = concat_tex_files(sorted_files, file_texts)
    /\ pc' = "convert"
    /\ UNCHANGED << raised, warnings, rtf_content, i, csl_path, disk >>
    /\ UNCHANGED << sorted_files, file_texts, rtf_contents >>
    /\ UNCHANGED << footVars, codecVars, templateVars >>

\* lines 215-227: convert(tex_path, "rtf", citation_style, ...)
CompileConvert ==
    /\ pc = "convert"
    /\ IF ConvertRaises(csl_path)
       THEN /\ raised' = "ValueError"
            /\ pc' = "raised"
            /\ UNCHANGED rtf_content
       ELSE /\ \E kept \in SUBSET (1..Len(sorted_files)), lead \in BOOLEAN :
                  rtf_content' = LeadText(lead)
                      \o ConverterOutput(sorted_files, file_texts, kept, 1)
            /\ pc' = "split"
            /\ UNCHANGED raised
    /\ UNCHANGED << warnings, i, csl_path, disk >>
    /\ UNCHANGED << footVars, codecVars, filesVars, templateVars >>

\* line 229, with the warning of lines 196-199
CompileSplit ==
    /\ pc = "split"
    /\ rtf_contents' = split_rtf_content(rtf_content)
    /\ warnings' = IF Len(rtf_contents') # Len(sorted_files) THEN warnings + 1 ELSE warnings
    /\ i' = 0
    /\ pc' = "fill"
    /\ UNCHANGED << raised, rtf_content, csl_path, disk >>
    /\ UNCHANGED << sorted_files, file_texts, tex_content >>
    /\ UNCHANGED << footVars, codecVars, templateVars >>

\* lines 231-242: one pass of the loop over sorted_files (i counts the passes
\* made; the pass reads sorted_files[i] and rtf_contents[i], 0-based)
FillSlot ==
    /\ pc = "fill"
    /\ i < Len(sorted_files)
    /\ LET occurrence == find_string(official_template, string)
       IN  IF occurrence = None
           THEN /\ raised' = "RuntimeError"
                /\ pc' = "raised"
                /\ UNCHANGED << official_template, i >>
           ELSE IF i + 1 > Len(rtf_contents)
           THEN /\ raised' = "IndexError"
                /\ pc' = "raised"
                /\ UNCHANGED << official_template, i >>
           ELSE /\ official_template' =
                      Upto(official_template, occurrence[1])
                          \o prepend_append_rtf(rtf_contents[i + 1], sorted_files[i + 1])
                          \o From(official_template, occurrence[2])
                /\ i' = i + 1
                /\ UNCHANGED << raised, pc >>
    /\ UNCHANGED << warnings, rtf_content, csl_path, disk, template_file, string >>
    /\ UNCHANGED << footVars, codecVars, filesVars >>

\* lines 244-246: the filled template is written to output_dir
WriteOutput ==
    /\ pc = "fill"
    /\ i = Len(sorted_files)
    /\ disk' = disk \cup {<< "o", "u", "t", ".", "r", "t", "f" >>}
    /\ pc' = "written"
    /\ UNCHANGED << raised, warnings, rtf_content, i, csl_path >>
    /\ UNCHANGED << footVars, codecVars, filesVars, templateVars >>

NextCompile == CompileConcat \/ CompileConvert \/ CompileSplit \/ FillSlot \/ WriteOutput

SpecCompile == InitCompile /\ [][NextCompile]_vars

-----------------------------------------------------------------------------
(* Properties of find_string and of the compile loop *)

\* the compile loop has been entered
FillPhase ==
    \/ pc \in {"fill", "written"}
    \/ pc = "raised" /\ raised # "ValueError"

Occurrences(text, str) == {p \in 0..Len(text) : MatchAt(text, str, p)}

\* as many slots in the template, and as many buckets, as fragments
SlotCountMatches ==
    /\ CountOcc(template_file, string) = Len(sorted_files)
    /\ Len(rtf_contents) = Len(sorted_files)

\* the "}" that closes the group opened at offset b, by depth counting
MatchingClose(text, b) ==
    LET opens == {p \in (b + 1)..(Len(text) - 1) : text[p + 1] = "{"}
        closes == {p \in (b + 1)..(Len(text) - 1) : text[p + 1] = "}"}
        balanced == {j \in closes :
                        1 + Cardinality({p \in opens : p <= j})
                            = Cardinality({p \in closes : p <= j})}
    IN  IF balanced = {} THEN -1 ELSE Min(balanced)

\* the group of the first occurrence of str: the nearest "{" before it and
\* that brace's matching "}", or None
GroupByDepth(text, str) ==
    LET start_index == Find(text, str, 0, Len(text))
        b == RFind(text, << "{" >>, 0, start_index)
        e == MatchingClose(text, b)
    IN  IF start_index = -1 \/ b = -1 \/ e = -1 THEN None ELSE << b, e + 1 >>

\* C3 as stated: with exactly n occurrences of the search string in the
\* template, n fragments and n buckets, the n fills never raise and leave no
\* occurrence of the search string.
C3_FillsNeverRaise ==
    (FillPhase /\ SlotCountMatches) =>
        /\ raised = "none"
        /\ i = Len(sorted_files) => CountOcc(official_template, string) = 0

\* every occurrence has a "{" before it and a "}" after it, and no other
\* occurrence lies between its nearest preceding "{" and first following "}"
SlotsSeparate(text, str) ==
    \A p \in Occurrences(text, str) :
        LET b == RFind(text, << "{" >>, 0, p)
            e == Find(text, << "}" >>, p, Len(text))
        IN  /\ b # -1
            /\ e # -1
            /\ \A q \in Occurrences(text, str) \ {p} : ~(b < q /\ q < e)

BraceFree(str) == ~Contains(str, << "{" >>) /\ ~Contains(str, << "}" >>)

\* no wrapped bucket holds the search string
ReplacementsClean ==
    \A n \in 1..Len(sorted_files) :
        n <= Len(rtf_contents) =>
            ~Contains(prepend_append_rtf(rtf_contents[n], sorted_files[n]), string)

\* C3 amended: with exactly n occurrences of a brace-free search string, each
\* with a "{" before it and a "}" after it and alone between its nearest
\* preceding "{" and first following "}", and n fragments with n buckets whose
\* wrapped contents do not hold the search string, the n fills never raise and
\* leave no occurrence of the search string.
C3_SeparateSlotsFilled ==
    (/\ FillPhase
     /\ SlotCountMatches
     /\ BraceFree(string)
     /\ SlotsSeparate(template_file, string)
     /\ ReplacementsClean) =>
        /\ raised = "none"
        /\ i = Len(sorted_files) => CountOcc(official_template, string) = 0

C3_Witness ==
    /\ pc = "written"
    /\ Len(sorted_files) = 2
    /\ SlotCountMatches
    /\ BraceFree(string)
    /\ SlotsSeparate(template_file, string)
    /\ ReplacementsClean
    /\ CountOcc(official_template, string) = 0
    /\ Contains(official_template, TO_OPEN \o sorted_files[2])

\* C4: for the first occurrence of the search string find_string returns the
\* nearest "{" before it and that brace's matching "}" by depth counting, and
\* None when there is no such group.
C4_FindStringMatchingBrace ==
    (pc = "fill" /\ i < Len(sorted_files)) =>
        find_string(official_template, string) = GroupByDepth(official_template, string)

\* C9: a bucket count that differs from the fragment count is not fatal: the
\* mismatch itself never ends compile with an error (the loop's only fatal
\* condition is a missing slot).
C9_MismatchNotFatal ==
    (FillPhase /\ Len(rtf_contents) # Len(sorted_files)) =>
        raised \in {"none", "RuntimeError"}

-----------------------------------------------------------------------------
(* extraction *)

RTF_SUFFIX == << ".", "r", "t", "f" >>

\* line 158: Path.with_suffix(".rtf") of a plain file name.  The name has a
\* suffix when its last "." is neither its first nor its last character.
WithSuffixRtf(name) ==
    LET dots == {p \in 1..Len(name) : name[p] = "."}
    IN  IF dots = {} \/ Max(dots) = 1 \/ Max(dots) = Len(name)
        THEN name \o RTF_SUFFIX
        ELSE SubSeq(name, 1, Max(dots) - 1) \o RTF_SUFFIX

PairNames == {AllNames[n] : n \in 1..Len(AllNames)}
PairBodies == { << "x" >>, << " ", "y", "\n" >>, << "{", "z", "}" >> }

\* the sentinel pairs a compiled document can hold
PairPieces == {prepend_append_rtf(b, n) \o << "\n" >> : n \in PairNames, b \in PairBodies}

InitExtract ==
    /\ pc = "extract"
    /\ raised = "none"
    /\ warnings = 0
    /\ \E ps \in SeqUpTo(PairPieces, MaxPairs) : content = << "{" >> \o Flatten(ps) \o << "}" >>
    /\ file_name = << >>
    /\ matches = << >>
    /\ rtf_content = << >>
    /\ i = 0
    /\ csl_path = "None"
    /\ disk = {}
    /\ FootIdle /\ FilesIdle /\ TemplateIdle

\* line 155
ExtractRegions ==
    /\ pc = "extract"
    /\ matches' = extract_rtf_content(content)
    /\ i' = 0
    /\ pc' = "extract_loop"
    /\ UNCHANGED << raised, warnings, rtf_content, csl_path, disk, file_name, content >>
    /\ UNCHANGED << footVars, filesVars, templateVars >>

\* lines 156-164: one pass of the loop.  convert is called with the file and
\* the output type only, so its csl_path is the default None.
ExtractFragment ==
    /\ pc = "extract_loop"
    /\ i < Len(matches)
    /\ LET out_file == matches[i + 1][1]
           out_file_rtf == WithSuffixRtf(out_file)
       IN  IF ConvertRaises(csl_path)
           THEN /\ disk' = disk \cup {out_file_rtf}
                /\ raised' = "ValueError"
                /\ pc' = "raised"
                /\ UNCHANGED i
           ELSE /\ disk' = ((disk \cup {out_file_rtf}) \cup {out_file}) \ {out_file_rtf}
                /\ i' = i + 1
                /\ UNCHANGED << raised, pc >>
    /\ UNCHANGED << warnings, rtf_content, csl_path, file_name, content, matches >>
    /\ UNCHANGED << footVars, filesVars, templateVars >>

\* the loop is over
ExtractionReturn ==
    /\ pc = "extract_loop"
    /\ i = Len(matches)
    /\ pc' = "extracted"
    /\ UNCHANGED << raised, warnings, rtf_content, i, csl_path, disk >>
    /\ UNCHANGED << footVars, codecVars, filesVars, templateVars >>

NextExtract == ExtractRegions \/ ExtractFragment \/ ExtractionReturn

SpecExtract == InitExtract /\ [][NextExtract]_vars

\* C8: extraction of a compiled document with one or more sentinel pairs runs
\* to completion without raising; when it is done a fragment file exists for
\* every pair and no intermediate .rtf file is left.
C8_ExtractionCompletes ==
    (pc \in {"extract_loop", "extracted", "raised"} /\ Len(matches) >= 1) =>
        /\ raised = "none"
        /\ pc = "extracted" =>
              /\ \A n \in 1..Len(matches) : matches[n][1] \in disk
              /\ \A n \in 1..Len(matches) : WithSuffixRtf(matches[n][1]) \notin disk

====
